---- MODULE Spec2Model ----
(***************************************************************************)
(* FastReactSystem (src/run.py): a polling loop that classifies the screen *)
(* against a folder of template images, reads timestamp lines by OCR,      *)
(* appends them to penguins_report.txt and uploads that file by FTP.       *)
(*                                                                         *)
(* Text is modelled as sequences of one-character strings, so that         *)
(* str.split, str.removesuffix, the regular expression PATTERN and the     *)
(* file writes are computed character by character.                       *)
(***************************************************************************)
EXTENDS Integers, Sequences, FiniteSets

VARIABLES
    pc,                \* position of the single control thread
    penguin_file_name, \* self.penguin_file_name (run.py:76, 115)
    verdict,           \* value returned by the last check_report call (run.py:116)
    file_names,        \* enumeration order of the template folder (os.walk, run.py:112)
    idx,               \* position of the loop of run.py:113 in file_names
    matched,           \* files locateOnScreen found in the check_report call of the running play()
    retained,          \* penguin_file_name when the running check_report call began
    screen,            \* the text OCR reads off the display
    esc,               \* keyboard.is_pressed("esc")
    log,               \* content of penguins_report.txt
    logExists,         \* penguins_report.txt exists on disk
    remote,            \* pycamp/penguins_report.txt on the FTP server
    driverOpen,        \* the Chrome driver has not been closed
    exitCode,          \* process exit status, NoExit while the process runs
    trace,             \* calls made so far by the current run() call
    logStart,          \* log content when the current run() call began
    frameLogged,       \* write_report_in_to_file has run on the OCR text now shown
    polls,             \* number of run() calls so far
    gate,              \* the current run() call found a sprawdz.png button (run.py:175)
    vtext,             \* validator specification: OCR output under test
    vlines,            \* validator specification: lines still to be examined
    vkept              \* validator specification: lines retained so far

vars == <<pc, penguin_file_name, verdict, file_names, idx, matched, retained, screen,
          esc, log, logExists, remote, driverOpen, exitCode, trace, logStart,
          frameLogged, polls, gate, vtext, vlines, vkept>>

progVars == <<pc, penguin_file_name, verdict, file_names, idx, matched, retained, screen,
              esc, log, logExists, remote, driverOpen, exitCode, trace, logStart,
              frameLogged, polls, gate>>

valVars == <<vtext, vlines, vkept>>

\* ---------------------------------------------------------------- bounds
MaxPolls == 2

\* ---------------------------------------------------------------- text
None == <<"None">>

\* the value of exitCode while the process has not exited
NoExit == -1

NL == "\n"

Letters ==
    {"a","b","c","d","e","f","g","h","i","j","k","l","m",
     "n","o","p","q","r","s","t","u","v","w","x","y","z",
     "A","B","C","D","E","F","G","H","I","J","K","L","M",
     "N","O","P","Q","R","S","T","U","V","W","X","Y","Z"}

Digits == {"0","1","2","3","4","5","6","7","8","9"}

\* \w of a str pattern: letters, digits and the underscore
WordChars == Letters \cup Digits \cup {"_"}

\* \s of a str pattern
SpaceChars == {" ", "\t", "\n", "\r", "\f"}

\* str.endswith
EndsWith(s, suf) ==
    /\ Len(suf) <= Len(s)
    /\ SubSeq(s, Len(s) - Len(suf) + 1, Len(s)) = suf

\* str.removesuffix
removesuffix(s, suf) ==
    IF suf # <<>> /\ EndsWith(s, suf)
    THEN SubSeq(s, 1, Len(s) - Len(suf))
    ELSE s

\* the position of the k-th occurrence of sep in s; 0 before the first piece,
\* Len(s) + 1 after the last
SepAt(s, sep, k) ==
    LET at == {i \in DOMAIN s : s[i] = sep}
    IN  IF k = 0 THEN 0
        ELSE IF k > Cardinality(at) THEN Len(s) + 1
        ELSE CHOOSE i \in at : Cardinality({j \in at : j <= i}) = k

\* str.split(sep) for a one-character separator: the pieces between separators
split(s, sep) ==
    [k \in 1..(Cardinality({i \in DOMAIN s : s[i] = sep}) + 1) |->
        SubSeq(s, SepAt(s, sep, k - 1) + 1, SepAt(s, sep, k) - 1)]

\* ---------------------------------------------------------------- validator
\* PATTERN = \w{3}\s\w{3}\s\d{2}\s\d{4}\s\d{2}:\d{2}:\d{2}$  (the part before $)
PATTERN ==
    <<"w","w","w","s","w","w","w","s","d","d","s","d","d","d","d","s",
      "d","d",":","d","d",":","d","d">>

\* one pattern item against one character
ClassMatch(item, c) ==
    CASE item = "w" -> c \in WordChars
      [] item = "s" -> c \in SpaceChars
      [] item = "d" -> c \in Digits
      [] OTHER      -> c = item

\* a pattern without its $ anchor
AtAnywhere(text, pos) == TRUE

\* $ without re.MULTILINE: the end of the string, or just before a final newline
AtEnd(text, pos) ==
    \/ pos = Len(text) + 1
    \/ pos = Len(text) /\ text[pos] = NL

\* the items of PATTERN match text from position k on
MatchAt(text, k) ==
    /\ k + Len(PATTERN) - 1 <= Len(text)
    /\ \A j \in 1..Len(PATTERN) : ClassMatch(PATTERN[j], text[k + j - 1])

\* PATTERN.search(text) is not None
search(text) ==
    \E k \in 1..(Len(text) + 1) :
        MatchAt(text, k) /\ AtEnd(text, k + Len(PATTERN))

\* ---------------------------------------------------------------- log writer
Raport == <<"R","a","p","o","r","t"," ","o","d",":"," ">>

dotpng == <<".","p","n","g">>

\* a record written without the newline after its first line
RecordOneLine(name, text) ==
    Raport \o removesuffix(name, dotpng) \o text \o <<NL>>

\* the two file.write calls of run.py:128-129
RecordText(name, text) ==
    Raport \o removesuffix(name, dotpng) \o <<NL>> \o text \o <<NL>>

\* a loop that stops after the first record
RECURSIVE WriteFirst(_, _, _)
WriteFirst(img_text, i, name) ==
    IF i > Len(img_text) THEN <<>>
    ELSE IF search(img_text[i]) THEN Raport \o removesuffix(name, dotpng) \o <<NL>>
                                      \o img_text[i] \o <<NL>>
    ELSE WriteFirst(img_text, i + 1, name)

\* the loop of run.py:125-129 over img_text, from line i on
RECURSIVE WriteLines(_, _, _)
WriteLines(img_text, i, name) ==
    IF i > Len(img_text) THEN <<>>
    ELSE (IF search(img_text[i]) THEN RecordText(name, img_text[i]) ELSE <<>>)
         \o WriteLines(img_text, i + 1, name)

\* what one call of write_report_in_to_file appends for an OCR output
Written(ocr, name) == WriteLines(split(ocr, NL), 1, name)

\* ---------------------------------------------------------------- templates
no_report == <<"n","o","_","r","e","p","o","r","t",".","p","n","g">>

pingu_03 == <<"p","i","n","g","u","_","0","3",".","p","n","g">>

pingu_07 == <<"p","i","n","g","u","_","0","7",".","j","p","g">>

\* the files of web/img/penguins_check
Templates == {no_report, pingu_03, pingu_07}

\* os.walk yields the files in an order the file system chooses
Orders ==
    {o \in [1..Cardinality(Templates) -> Templates] :
        \A i, j \in DOMAIN o : i # j => o[i] # o[j]}

\* ---------------------------------------------------------------- screen
T1 == <<"M","o","n"," ","J","a","n"," ","0","2"," ","2","0","2","3"," ","1","4",":","0","5",":","0","9">>

T2 == <<"T","u","e"," ","F","e","b"," ","0","3"," ","2","0","2","3"," ","1","5",":","0","6",":","1","0">>

Garbage == <<"g","a","r","b","a","g","e"," ","l","i","n","e"," ","n","o"," ","t","i","m","e","s","t","a","m","p">>

\* outputs of pytesseract.image_to_string
OcrTexts ==
    { Garbage \o <<NL>>,
      T1 \o <<NL>>,
      T1 \o <<NL>> \o Garbage \o <<NL>> \o T2 \o <<NL, "\f">> }


\* ---------------------------------------------------------------- program
\* a classifier that keeps the first file that matched in the call
check_report_first(name, file, found) == IF found /\ matched = {} THEN file ELSE name

\* a classifier that forgets the retained identifier when a file does not match
check_report_forget(name, file, found) == IF found THEN file ELSE None

\* run.py:114-115: the identifier kept after one file of the folder was tested
check_report_keep(name, file, found) == IF found THEN file ELSE name

\* a branch test that sends every verdict into the report branch
is_anything(v) == TRUE

\* a branch test that forgets the decoy
is_not_none(v) == v # None

\* run.py:153: the verdict that sends play() into the report branch
is_report(v) == v \notin {None, no_report}

\* outcomes of the FTP session of run.py:139-143
FtpOutcomes == {"stored", "login_error_perm", "cwd_error_perm", "unreachable", "error_temp"}

\* the outcomes that raise ftplib.error_perm, caught at run.py:180
IsErrorPerm(o) == o \in {"login_error_perm", "cwd_error_perm"}

\* the outcomes that fail before open("penguins_report.txt", "rb") is reached
FailsAtConnect(o) == o \in {"login_error_perm", "unreachable"}

\* a file opened for writing is truncated
open_wb(content) == <<>>

\* open("penguins_report.txt", "rb") and the upload read the file and leave it as it is
open_rb(content) == content

\* a run() that plays whether or not a button was found
run_always(visible) == "play"

\* run.py:175-176: play() is called when at least one sprawdz.png button was located
run_gate(visible) == IF visible THEN "play" ELSE "run_esc"

\* a file opened for writing instead of appending loses its content
open_w(content) == <<>>

\* open(reports_filename, "a"): the content present is kept and writes go after it
open_a(content) == content

\* a run() that tries the transfer again after error_perm
after_send_retry(exc) ==
    IF exc = "none" THEN "run_esc" ELSE IF exc = "error_perm" THEN "send" ELSE "exited"

\* run.py:178-182: where control goes after send_to_ftp returned or raised exc
after_send(exc) == IF exc \in {"none", "error_perm"} THEN "run_esc" ELSE "exited"

\* a main block without the except clause
main_uncaught(exc) == 1

\* run.py:207-211: exit status when an exception leaves open_web_doc
main_except(exc) == IF exc = "NoSuchWindowException" THEN 0 ELSE 1

Init ==
    /\ pc = "while"
    /\ penguin_file_name = None
    /\ verdict = None
    /\ file_names \in Orders
    /\ idx = 1
    /\ matched = {}
    /\ retained = None
    /\ screen \in OcrTexts
    /\ esc = FALSE
    /\ log = <<>>
    /\ logExists = FALSE
    /\ remote = None
    /\ driverOpen = TRUE
    /\ exitCode = NoExit
    /\ trace = <<>>
    /\ logStart = <<>>
    /\ frameLogged = FALSE
    /\ polls = 0
    /\ gate = FALSE
    /\ vtext = <<>>
    /\ vlines = <<>>
    /\ vkept = <<>>

\* a loop that ends after its first pass whether or not esc is pressed
open_web_doc_once ==
    /\ pc = "while"
    /\ IF esc \/ polls >= 1 THEN pc' = "close"
       ELSE polls < MaxPolls /\ pc' = "current_url"
    /\ UNCHANGED <<penguin_file_name, verdict, file_names, idx, matched, retained, screen,
                   esc, log, logExists, remote, driverOpen, exitCode, trace, logStart,
                   frameLogged, polls, gate, valVars>>

\* run.py:195: while not keyboard.is_pressed("esc")
open_web_doc_while ==
    /\ pc = "while"
    /\ IF esc THEN pc' = "close"
       ELSE polls < MaxPolls /\ pc' = "current_url"
    /\ UNCHANGED <<penguin_file_name, verdict, file_names, idx, matched, retained, screen,
                   esc, log, logExists, remote, driverOpen, exitCode, trace, logStart,
                   frameLogged, polls, gate, valVars>>

\* run.py:196-198: if driver.current_url: sleep; run()
open_web_doc_current_url ==
    /\ pc = "current_url"
    /\ \E url \in BOOLEAN : pc' = IF url THEN "run" ELSE "bottom"
    /\ UNCHANGED <<penguin_file_name, verdict, file_names, idx, matched, retained, screen,
                   esc, log, logExists, remote, driverOpen, exitCode, trace, logStart,
                   frameLogged, polls, gate, valVars>>

\* run.py:175: is a sprawdz.png button on the screen
run_locate ==
    /\ pc = "run"
    /\ polls' = polls + 1
    /\ trace' = <<>>
    /\ logStart' = log
    /\ \E visible \in BOOLEAN :
         /\ gate' = visible
         /\ pc' = run_gate(visible)
    /\ UNCHANGED <<penguin_file_name, verdict, file_names, idx, matched, retained, screen,
                   esc, log, logExists, remote, driverOpen, exitCode, frameLogged,
                   valVars>>

\* run.py:149-150: sleep; check_and_click_if_buttons(zamknij_zgloszenie.png)
play_zamknij ==
    /\ pc = "play"
    /\ trace' = Append(trace, "zamknij")
    /\ pc' = "play_sprawdz"
    /\ UNCHANGED <<penguin_file_name, verdict, file_names, idx, matched, retained, screen,
                   esc, log, logExists, remote, driverOpen, exitCode, logStart,
                   frameLogged, polls, gate, valVars>>

\* a play() that forgets the retained identifier before it classifies
play_sprawdz_fresh ==
    /\ pc = "play_sprawdz"
    /\ trace' = Append(trace, "sprawdz")
    /\ idx' = 1
    /\ matched' = {}
    /\ retained' = penguin_file_name
    /\ penguin_file_name' = None
    /\ pc' = "check_report"
    /\ UNCHANGED <<verdict, file_names, screen, esc, log, logExists,
                   remote, driverOpen, exitCode, logStart, frameLogged, polls, gate, valVars>>

\* run.py:151-153: check_and_click_if_buttons(sprawdz.png), then check_report is entered
play_sprawdz ==
    /\ pc = "play_sprawdz"
    /\ trace' = Append(trace, "sprawdz")
    /\ idx' = 1
    /\ matched' = {}
    /\ retained' = penguin_file_name
    /\ pc' = "check_report"
    /\ UNCHANGED <<penguin_file_name, verdict, file_names, screen, esc, log, logExists,
                   remote, driverOpen, exitCode, logStart, frameLogged, polls, gate, valVars>>

\* run.py:113-115: one file of the folder is tested against the screen;
\* found is locateOnScreen(file, confidence=0.6) is not None
check_report_file ==
    /\ pc = "check_report"
    /\ idx <= Len(file_names)
    /\ \E found \in BOOLEAN :
         /\ penguin_file_name' = check_report_keep(penguin_file_name, file_names[idx], found)
         /\ matched' = IF found THEN matched \cup {file_names[idx]} ELSE matched
    /\ idx' = idx + 1
    /\ UNCHANGED <<pc, verdict, file_names, retained, screen, esc, log, logExists,
                   remote, driverOpen, exitCode, trace, logStart, frameLogged, polls,
                   gate, valVars>>

\* run.py:116 and 153: return self.penguin_file_name; play() branches on it
check_report_return ==
    /\ pc = "check_report"
    /\ idx > Len(file_names)
    /\ verdict' = penguin_file_name
    /\ trace' = Append(trace, "check_report")
    /\ pc' = IF is_report(penguin_file_name) THEN "write" ELSE "play_false"
    /\ retained' = None
    /\ UNCHANGED <<penguin_file_name, file_names, idx, matched, screen, esc, log,
                   logExists, remote, driverOpen, exitCode, logStart, frameLogged, polls,
                   gate, valVars>>

\* run.py:154-155 and 118-129: open for append, OCR the screenshot, write the records
write_report_in_to_file ==
    /\ pc = "write"
    /\ log' = open_a(log) \o Written(screen, penguin_file_name)
    /\ logExists' = TRUE
    /\ frameLogged' = TRUE
    /\ trace' = Append(trace, "ocr")
    /\ pc' = "play_report"
    /\ UNCHANGED <<penguin_file_name, verdict, file_names, idx, matched, retained, screen,
                   esc, remote, driverOpen, exitCode, logStart, polls, gate, valVars>>

\* run.py:156-157: the report branch closes the dialog
play_report_zamknij ==
    /\ pc = "play_report"
    /\ trace' = Append(trace, "zamknij")
    /\ pc' = "send"
    /\ UNCHANGED <<penguin_file_name, verdict, file_names, idx, matched, retained, screen,
                   esc, log, logExists, remote, driverOpen, exitCode, logStart,
                   frameLogged, polls, gate, valVars>>

\* a false-report branch that leaves the dialog open
play_false_skip ==
    /\ pc = "play_false"
    /\ pc' = "send"
    /\ UNCHANGED <<penguin_file_name, verdict, file_names, idx, matched, retained, screen,
                   esc, log, logExists, remote, driverOpen, exitCode, trace, logStart,
                   frameLogged, polls, gate, valVars>>

\* run.py:159-161: the false-report branch closes the dialog
play_false_zamknij ==
    /\ pc = "play_false"
    /\ trace' = Append(trace, "zamknij")
    /\ pc' = "send"
    /\ UNCHANGED <<penguin_file_name, verdict, file_names, idx, matched, retained, screen,
                   esc, log, logExists, remote, driverOpen, exitCode, logStart,
                   frameLogged, polls, gate, valVars>>

\* run.py:178-181 and 132-143: one FTP session; only error_perm is caught
send_to_ftp ==
    /\ pc = "send"
    /\ \E o \in FtpOutcomes :
         LET missing == ~FailsAtConnect(o) /\ ~logExists
             result == IF missing THEN "FileNotFoundError" ELSE o
             exc == IF missing THEN "FileNotFoundError"
                    ELSE IF IsErrorPerm(o) THEN "error_perm"
                    ELSE IF o = "stored" THEN "none"
                    ELSE "OSError"
         IN  /\ log' = open_rb(log)
             /\ remote' = IF exc = "none" THEN open_rb(log) ELSE remote
             /\ trace' = trace \o <<"send", result>>
                                \o (IF exc = "error_perm" THEN <<"warning">> ELSE <<>>)
             /\ pc' = after_send(exc)
             /\ exitCode' = IF exc \in {"none", "error_perm"} THEN exitCode
                            ELSE main_except(exc)
    /\ matched' = {}
    /\ UNCHANGED <<penguin_file_name, verdict, file_names, idx, retained, screen,
                   esc, logExists, driverOpen, logStart, frameLogged, polls, gate, valVars>>

\* run.py:182-183: esc raises NoSuchWindowException, which leaves run and open_web_doc
run_esc ==
    /\ pc = "run_esc"
    /\ IF esc
       THEN pc' = "exited" /\ exitCode' = main_except("NoSuchWindowException")
       ELSE pc' = "bottom" /\ exitCode' = exitCode
    /\ UNCHANGED <<penguin_file_name, verdict, file_names, idx, matched, retained, screen,
                   esc, log, logExists, remote, driverOpen, trace, logStart,
                   frameLogged, polls, gate, valVars>>

\* run.py:199-200: the same check at the bottom of the loop body
open_web_doc_esc ==
    /\ pc = "bottom"
    /\ IF esc
       THEN pc' = "exited" /\ exitCode' = main_except("NoSuchWindowException")
       ELSE pc' = "while" /\ exitCode' = exitCode
    /\ UNCHANGED <<penguin_file_name, verdict, file_names, idx, matched, retained, screen,
                   esc, log, logExists, remote, driverOpen, trace, logStart,
                   frameLogged, polls, gate, valVars>>

\* run.py:201: driver.close(), then open_web_doc and the main block end
driver_close ==
    /\ pc = "close"
    /\ driverOpen' = FALSE
    /\ exitCode' = 0
    /\ pc' = "exited"
    /\ UNCHANGED <<penguin_file_name, verdict, file_names, idx, matched, retained, screen,
                   esc, log, logExists, remote, trace, logStart, frameLogged, polls,
                   gate, valVars>>

\* ---------------------------------------------------------------- environment
\* the page changes what it shows
ScreenChange ==
    /\ pc # "exited"
    /\ screen' \in OcrTexts \ {screen}
    /\ frameLogged' = FALSE
    /\ UNCHANGED <<pc, penguin_file_name, verdict, file_names, idx, matched, retained,
                   esc, log, logExists, remote, driverOpen, exitCode, trace, logStart,
                   polls, gate, valVars>>

\* the user presses or releases the esc key
EscKey ==
    /\ pc # "exited"
    /\ esc' = ~esc
    /\ UNCHANGED <<pc, penguin_file_name, verdict, file_names, idx, matched, retained,
                   screen, log, logExists, remote, driverOpen, exitCode, trace,
                   logStart, frameLogged, polls, gate, valVars>>

Next ==
    \/ open_web_doc_while
    \/ open_web_doc_current_url
    \/ run_locate
    \/ play_zamknij
    \/ play_sprawdz
    \/ check_report_file
    \/ check_report_return
    \/ write_report_in_to_file
    \/ play_report_zamknij
    \/ play_false_zamknij
    \/ send_to_ftp
    \/ run_esc
    \/ open_web_doc_esc
    \/ driver_close
    \/ ScreenChange
    \/ EscKey

Spec == Init /\ [][Next]_vars

\* ---------------------------------------------------------------- validator alone
\* The validator of run.py:124-126 applied to OCR outputs built around a
\* timestamp: one character replaced, with and without text before and after.
MutChars == {"a", "7", "_", " ", "\t", ":", "-", NL}

Prefixes == {<<>>, <<"x">>, <<"#", " ">>}

Suffixes == {<<>>, <<" ">>, <<"x">>, <<NL>> \o Garbage}

TestTexts ==
    {pre \o [T1 EXCEPT ![i] = c] \o suf :
        pre \in Prefixes, i \in DOMAIN T1, c \in MutChars, suf \in Suffixes}

PatternInit ==
    /\ pc = "validate"
    /\ penguin_file_name = None
    /\ verdict = None
    /\ file_names = <<no_report, pingu_03, pingu_07>>
    /\ idx = 1
    /\ matched = {}
    /\ retained = None
    /\ screen = T1 \o <<NL>>
    /\ esc = FALSE
    /\ log = <<>>
    /\ logExists = FALSE
    /\ remote = None
    /\ driverOpen = TRUE
    /\ exitCode = NoExit
    /\ trace = <<>>
    /\ logStart = <<>>
    /\ frameLogged = FALSE
    /\ polls = 0
    /\ gate = FALSE
    /\ vtext \in TestTexts
    /\ vlines = split(vtext, NL)
    /\ vkept = <<>>

\* run.py:125-126: the next line of img_text is kept when PATTERN.search finds a match
validate_line ==
    /\ pc = "validate"
    /\ vlines # <<>>
    /\ vkept' = IF search(Head(vlines)) THEN Append(vkept, Head(vlines)) ELSE vkept
    /\ vlines' = Tail(vlines)
    /\ UNCHANGED <<vtext, progVars>>

PatternNext == validate_line

SpecPattern == PatternInit /\ [][PatternNext]_vars

\* ---------------------------------------------------------------- properties
\* steps of the control thread
WriteStep == pc = "write" /\ pc' = "play_report"

ReturnStep == pc = "check_report" /\ pc' # "check_report"

SendStep == pc = "send" /\ pc' # "send"

RECURSIVE Count(_, _)
Count(s, x) ==
    IF s = <<>> THEN 0 ELSE (IF Head(s) = x THEN 1 ELSE 0) + Count(Tail(s), x)

StartsWith(s, pre) == Len(pre) <= Len(s) /\ SubSeq(s, 1, Len(pre)) = pre

\* the lines of penguins_report.txt; the element after the last newline is empty
LogLines == split(log, NL)

\* the text after the label of a record's first line
SourceIdOf(line) == SubSeq(line, Len(Raport) + 1, Len(line))

\* a file name without its extension (from the last dot on)
Stem(name) ==
    LET dots == {i \in DOMAIN name : name[i] = "."}
    IN  IF dots = {} THEN name
        ELSE SubSeq(name, 1, (CHOOSE i \in dots : \A j \in dots : j <= i) - 1)

\* C1: exactly-once recording: a call of write_report_in_to_file appends the
\* records of the validated lines on screen when they have not been through
\* write_report_in_to_file before, and appends nothing when they have (a later
\* cycle seeing the same text again, with or without a template matching).
C1_ExactlyOnce ==
    [][WriteStep =>
         log' = log \o (IF frameLogged THEN <<>> ELSE Written(screen, penguin_file_name))]_vars

C3_SourceId ==
    \A i \in 1..Len(LogLines) :
        (i % 2 = 1 /\ i < Len(LogLines)) =>
            /\ SourceIdOf(LogLines[i]) # <<>>
            /\ SourceIdOf(LogLines[i]) \in {Stem(f) : f \in Templates}

\* a line ends with a timestamp whose two tokens are drawn from word and whose
\* separators are drawn from space, with nothing after the seconds
TimestampSuffix(line, word, space) ==
    /\ Len(line) >= 24
    /\ LET t == SubSeq(line, Len(line) - 23, Len(line)) IN
         /\ \A i \in {1, 2, 3, 5, 6, 7} : t[i] \in word
         /\ \A i \in {4, 8, 11, 16} : t[i] \in space
         /\ \A i \in {9, 10, 12, 13, 14, 15, 17, 18, 20, 21, 23, 24} : t[i] \in Digits
         /\ t[19] = ":" /\ t[22] = ":"

WordTimestamp(line) == TimestampSuffix(line, WordChars, SpaceChars)

LetterTimestamp(line) == TimestampSuffix(line, Letters, {" "})

\* the lines of vtext the validator has examined so far
Examined ==
    LET all == split(vtext, NL) IN SubSeq(all, 1, Len(all) - Len(vlines))

\* C4 as stated: the lines retained are exactly those that end with three
\* letters, a space, three letters, a space, two digits, a space, four digits,
\* a space and two digits, colon, two digits, colon, two digits.
C4_LetterGrammar == vkept = SelectSeq(Examined, LetterTimestamp)

\* C4 as amended: the lines retained are exactly those that end with three
\* word characters (letter, digit or underscore), one whitespace character,
\* three word characters, one whitespace character, two digits, whitespace,
\* four digits, whitespace and two digits, colon, two digits, colon, two
\* digits, with nothing after them; what precedes is unconstrained.
C4_WordGrammar == vkept = SelectSeq(Examined, WordTimestamp)

\* C4 witness: every line examined, one of them retained although text precedes
\* its timestamp and its first token holds a character that is no letter, and
\* another one rejected
C4_Witness ==
    /\ vlines = <<>>
    /\ Len(vkept) = 1
    /\ Len(vkept[1]) > 24
    /\ \E i \in (Len(vkept[1]) - 23)..(Len(vkept[1]) - 21) : vkept[1][i] \notin Letters
    /\ Len(split(vtext, NL)) > 1

\* play() has returned and the transfer has not begun
PlayDone == pc = "send"

\* the last file of the enumeration that matched in the check_report call
LastMatched ==
    LET at == {i \in DOMAIN file_names : file_names[i] \in matched}
    IN  file_names[CHOOSE i \in at : \A j \in at : j <= i]

\* C5 as stated: in a cycle whose frame matches the decoy template,
\* check_report returns the decoy identifier, nothing is appended to the log
\* and the close-report click is attempted exactly once.
C5_DecoyOnce ==
    (PlayDone /\ no_report \in matched) =>
        /\ verdict = no_report
        /\ log = logStart
        /\ Count(trace, "zamknij") = 1

\* C5 as amended: in a cycle whose frame matches the decoy template and no
\* template later in the enumeration, check_report returns the decoy
\* identifier; in every cycle in which it returns the decoy identifier nothing
\* is appended to the log and the close-report click is attempted exactly
\* twice, once before the classification and once after it.
C5_DecoyTwice ==
    PlayDone =>
        /\ (matched # {} /\ LastMatched = no_report) => verdict = no_report
        /\ verdict = no_report =>
              /\ log = logStart
              /\ trace = <<"zamknij", "sprawdz", "check_report", "zamknij">>

\* C5 witness: a cycle body that ended with the decoy matched last, while a
\* report was retained from an earlier cycle
C5_Witness ==
    /\ PlayDone
    /\ no_report \in matched
    /\ verdict = no_report
    /\ log # <<>>
    /\ Count(trace, "zamknij") = 2

ReportFrom == <<"R","e","p","o","r","t"," ","f","r","o","m",":"," ">>

pingu_03_id == <<"p","i","n","g","u","_","0","3">>

\* a file content is a sequence of two-line records: label and sourceId, then
\* a line that passes the validator
LogFormat(content, label) ==
    LET lines == split(content, NL) IN
    /\ Len(lines) % 2 = 1
    /\ lines[Len(lines)] = <<>>
    /\ \A i \in 1..Len(lines) :
         (i % 2 = 1 /\ i < Len(lines)) =>
            /\ StartsWith(lines[i], label)
            /\ SubSeq(lines[i], Len(label) + 1, Len(lines[i])) \in {pingu_03_id, pingu_07}
            /\ WordTimestamp(lines[i + 1])

C7_RecordsPerCycle ==
    [][WriteStep =>
         LET kept  == SelectSeq(split(screen, NL), WordTimestamp)
             added == split(SubSeq(log', Len(log) + 1, Len(log')), NL)
         IN  /\ StartsWith(log', log)
             /\ Len(added) = 2 * Len(kept) + 1
             /\ \A i \in 1..Len(kept) : added[2 * i] = kept[i]
             /\ kept = <<>> => log' = log]_vars

\* C7 witness: a call that appended two records to a log that held one
C7_Witness ==
    /\ pc = "play_report"
    /\ logStart # <<>>
    /\ Len(LogLines) - Len(split(logStart, NL)) = 4

\* the transfer attempt of the current run() call is over, and how it ended
SendDone == Count(trace, "send") = 1

SendResult == trace[(CHOOSE i \in DOMAIN trace : trace[i] = "send") + 1]

\* C8: a call of send_to_ftp, whatever its outcome, leaves the content of the
\* local log as it was and the file in place; what a successful call uploads is
\* that content, so two calls with no record in between upload the same.
C8_TransferKeepsLog ==
    [][SendStep =>
         /\ log' = log
         /\ logExists' = logExists
         /\ remote' = IF SendResult' = "stored" THEN log ELSE remote]_vars

\* C8 witness: the second transfer in a row with no new record has uploaded
\* the same non-empty log
C8_Witness ==
    /\ pc = "run_esc"
    /\ polls = 2
    /\ SendDone /\ SendResult = "stored"
    /\ log # <<>> /\ log = logStart
    /\ remote = log

\* C9: when the transfer fails because the remote store is unreachable or
\* refuses permission, the failure is caught in run(), a warning is printed and
\* the process does not terminate with an error.
C9_TransferUnavailable ==
    (SendDone /\ SendResult \in {"unreachable", "login_error_perm", "cwd_error_perm"}) =>
        /\ Count(trace, "warning") = 1
        /\ exitCode # 1

CycleBody ==
    {"play", "play_sprawdz", "check_report", "write", "play_report", "play_false", "send"}

\* C10: cancellation is cooperative: the process ends with status 0 only from a
\* sample point of the esc key (the loop condition, the end of run(), the
\* bottom of the loop body); no step of a cycle body, transfer included, is cut
\* short by the key; and wherever the key is sampled as pressed the loop ends
\* and the process exits with status 0.
C10_Cancellation ==
    [][/\ (exitCode = NoExit /\ exitCode' = 0) =>
              (pc = "close" \/ (pc \in {"run_esc", "bottom"} /\ esc))
       /\ (pc = "while" /\ pc' = "close") => esc
       /\ (pc \in CycleBody /\ pc' # pc) =>
              (pc' \in CycleBody \cup {"run_esc"} \/ (pc = "send" /\ exitCode' = 1))
       /\ (pc \in {"run_esc", "bottom"} /\ esc /\ pc' # pc) =>
              (pc' = "exited" /\ exitCode' = 0)
       /\ (pc = "while" /\ esc /\ pc' # pc) => pc' = "close"
       /\ (pc = "close" /\ pc' # pc) => (pc' = "exited" /\ exitCode' = 0)]_vars

\* C10 witness: the key was sampled as pressed after a cycle whose transfer
\* had completed, and the process has left through the main block with status 0
C10_Witness ==
    /\ pc = "exited"
    /\ exitCode = 0
    /\ driverOpen
    /\ SendDone /\ SendResult = "stored"
    /\ log # <<>>

\* the number of characters in the records of the given validated lines
RECURSIVE RecordBytes(_, _)
RecordBytes(lines, name) ==
    IF lines = <<>> THEN 0
    ELSE Len(Raport) + Len(removesuffix(name, dotpng)) + 1 + Len(Head(lines)) + 1
         + RecordBytes(Tail(lines), name)

\* C11: the log is append-only: no step of a cycle or of a transfer shortens
\* or rewrites it or removes the file, so what it held in an earlier state is
\* a prefix of what it holds in every later state; a call of
\* write_report_in_to_file grows it by exactly the characters written, and
\* no other step changes it.
C11_AppendOnly ==
    [][/\ StartsWith(log', log)
       /\ logExists => logExists'
       /\ WriteStep =>
             Len(log') = Len(log)
                + RecordBytes(SelectSeq(split(screen, NL), WordTimestamp), penguin_file_name)
       /\ ~WriteStep => log' = log]_vars

\* C11 witness: a second write has extended a log that already held records
C11_Witness ==
    /\ pc = "play_report"
    /\ logStart # <<>>
    /\ Len(log) > Len(logStart)
    /\ StartsWith(log, logStart)

\* C12: last match wins: check_report returns only after it has tested every
\* file of the folder, and when one or more matched it returns, and retains
\* in penguin_file_name, the last of them in enumeration order.
C12_LastMatchWins ==
    [][ReturnStep =>
         /\ idx = Len(file_names) + 1
         /\ matched # {} =>
               /\ verdict' = LastMatched
               /\ penguin_file_name' = LastMatched]_vars

\* C12 witness: a call about to return in which the first file of the
\* enumeration matched and a later one did too
C12_Witness ==
    /\ pc = "check_report"
    /\ idx > Len(file_names)
    /\ file_names[1] \in matched
    /\ Cardinality(matched) >= 2
    /\ penguin_file_name = LastMatched
    /\ penguin_file_name # file_names[1]

\* C13: extraction only on a positive verdict: when play() has returned after
\* check_report gave None or "no_report.png", OCR was not run and the log is
\* as it was when the poll began; after any other verdict OCR was run exactly
\* once and the log was extended by one record for each validated line of the
\* text on screen.
C13_ExtractionOnPositive ==
    PlayDone =>
        IF verdict \in {None, no_report}
        THEN Count(trace, "ocr") = 0 /\ log = logStart
        ELSE /\ Count(trace, "ocr") = 1
             /\ StartsWith(log, logStart)
             /\ frameLogged =>
                   LET kept  == SelectSeq(split(screen, NL), WordTimestamp)
                       added == split(SubSeq(log, Len(logStart) + 1, Len(log)), NL)
                   IN  /\ Len(added) = 2 * Len(kept) + 1
                       /\ \A i \in 1..Len(kept) : added[2 * i] = kept[i]

\* C13 witness: a cycle body in which pingu_03.png matched, OCR ran once and
\* records were appended
C13_Witness ==
    /\ PlayDone
    /\ matched = {pingu_03}
    /\ verdict = pingu_03
    /\ Count(trace, "ocr") = 1
    /\ frameLogged
    /\ Len(log) > Len(logStart)

\* the calls of the current run() call up to and including the transfer
Calls ==
    IF SendDone
    THEN SubSeq(trace, 1, CHOOSE i \in DOMAIN trace : trace[i] = "send")
    ELSE trace

ReportOrder == <<"zamknij", "sprawdz", "check_report", "ocr", "zamknij", "send">>

FalseOrder == <<"zamknij", "sprawdz", "check_report", "zamknij", "send">>

\* C14: order of the actions of a cycle: a close attempt, the check-button
\* click attempt, the classification, then extraction and log appends on a
\* positive verdict only, then a close attempt on either branch, and only then
\* the transfer attempt; every cycle body that reached the classification has
\* made the second close attempt when the transfer begins.
C14_Order ==
    /\ StartsWith(ReportOrder, Calls) \/ StartsWith(FalseOrder, Calls)
    /\ Len(Calls) >= 4 => (Calls[4] = "ocr" <=> verdict \notin {None, no_report})
    /\ PlayDone =>
          /\ Count(Calls, "check_report") = 1
          /\ Calls[Len(Calls)] = "zamknij"
          /\ Count(Calls, "zamknij") = 2
    /\ SendDone => Calls \in {ReportOrder, FalseOrder}

\* C14 witness: a report cycle whose transfer attempt has been made
C14_Witness ==
    /\ SendDone
    /\ Calls = ReportOrder
    /\ Len(log) > Len(logStart)

\* C15: a run() call that finds no sprawdz.png button skips the cycle body:
\* it goes straight to its esc check with no close or click attempt, no
\* classification, penguin_file_name, the log and the remote file untouched
\* and no transfer attempt; the step that follows only samples the esc key.
C15_Gating ==
    [][/\ (pc = "run" /\ pc' # "run" /\ ~gate') =>
             /\ pc' = "run_esc"
             /\ trace' = <<>>
             /\ UNCHANGED <<penguin_file_name, verdict, matched, log, logExists, remote>>
       /\ (pc = "run_esc" /\ ~gate) =>
             /\ trace = <<>> /\ log = logStart
             /\ UNCHANGED <<penguin_file_name, verdict, matched, log, logExists,
                            remote, trace>>
             /\ pc' \in {"run_esc", "bottom", "exited"}]_vars

\* C15 witness: a poll without a button after a cycle that retained a report
\* and wrote records
C15_Witness ==
    /\ pc = "run_esc"
    /\ ~gate
    /\ trace = <<>>
    /\ penguin_file_name \in Templates \ {no_report}
    /\ log # <<>>

\* C16: every completed cycle body is followed by exactly one transfer
\* attempt before run() samples the esc key, never a second one in the same
\* poll; the attempt comes after the cycle's writes, and what a successful
\* attempt uploaded is the whole log, every record appended so far included.
C16_OneTransfer ==
    /\ Count(trace, "send") <= 1
    /\ (pc = "run_esc" /\ gate) => SendDone
    /\ SendDone => (gate /\ Calls \in {ReportOrder, FalseOrder})
    /\ (pc = "run_esc" /\ SendDone /\ SendResult = "stored") => remote = log

\* C16 witness: a report cycle whose records were uploaded by its one transfer
C16_Witness ==
    /\ pc = "run_esc"
    /\ gate
    /\ Count(trace, "send") = 1
    /\ SendResult = "stored"
    /\ Count(trace, "ocr") = 1
    /\ Len(log) > Len(logStart)
    /\ remote = log

\* C17: whenever the esc key has ended the outer loop and the process has
\* exited with status 0, driver.close() has been performed.
C17_DriverClosed == (pc = "exited" /\ exitCode = 0) => ~driverOpen

C20_TransferWithoutLog ==
    (SendDone /\ ~logExists /\ SendResult \notin {"unreachable", "error_temp"})
        => exitCode # 1

\* ---------------------------------------------------------------- fairness
\* the steps of the control thread; the screen and the key belong to the world
ProgNext ==
    \/ open_web_doc_while
    \/ open_web_doc_current_url
    \/ run_locate
    \/ play_zamknij
    \/ play_sprawdz
    \/ check_report_file
    \/ check_report_return
    \/ write_report_in_to_file
    \/ play_report_zamknij
    \/ play_false_zamknij
    \/ send_to_ftp
    \/ run_esc
    \/ open_web_doc_esc
    \/ driver_close

\* every blocking call returns: the one thread takes its next step when it has one
FairSpec == Spec /\ WF_vars(ProgNext)

SamplePoints == {"while", "run_esc", "bottom"}

====
